---- MODULE Spec2Model ----
(***************************************************************************)
(* Glass Todo server (server.js): the sync endpoints GET/POST /api/data,   *)
(* the push subscription endpoints, sendPushToUser and the reminder        *)
(* scanner scanAndSendReminders driven by setInterval.                     *)
(*                                                                         *)
(* Every "await" and every sqlite callback of the source is a suspension   *)
(* point: one action of the model is one run-to-completion block of        *)
(* JavaScript between two suspension points.  The sqlite connection is a   *)
(* queue of statements (dbq) executed in the order they were issued; the   *)
(* action that takes a statement off the queue executes it and runs the    *)
(* callback / resumes the awaiting function.                               *)
(***************************************************************************)
EXTENDS Integers, Sequences, FiniteSets, TLC

\* ------------------------------------------------------------- constants
PUSH_SCAN_INTERVAL_MS == 60 * 1000
PUSH_WINDOW_MS == 60 * 1000

\* ---------------------------------------------------------------- bounds
MaxPeriods == 2       \* the clock runs over MaxPeriods scan intervals
MaxQueue == 2         \* client requests are accepted while dbq is shorter
MaxRequests == 2      \* client requests accepted when only clients act
MaxScanRequests == 1  \* client requests accepted while the scanner runs
MaxRestarts == 1      \* process restarts per run of the model
MaxPushRequests == 3  \* requests to the subscription endpoints

Users == {"alice", "bob"}
Endpoints == {"e1", "e2"}
Keys == {"k1", "k2"}
\* transport outcomes of webpush.sendNotification: delivered, or err.statusCode
Statuses == {201, 404, 410, 500}

\* Date.now() takes its values at the start of a scan interval and 1 ms later
Instants == {k * PUSH_SCAN_INTERVAL_MS : k \in 1..(MaxPeriods + 1)}
              \cup {k * PUSH_SCAN_INTERVAL_MS + 1 : k \in 2..(MaxPeriods + 1)}

\* the process boots at the first instant; rows left by earlier runs carry an
\* earlier version
BootTime == PUSH_SCAN_INTERVAL_MS
InitVersion == PUSH_SCAN_INTERVAL_MS \div 2

\* the reminder instant of the tasks clients publish: 1 ms after the earliest
\* first tick
RemindAt == BootTime + PUSH_SCAN_INTERVAL_MS + 1

\* ----------------------------------------------------------------- tasks
\* A task as the server reads it: the inspected fields; 0 stands for an
\* absent (falsy) field.
Task(id, status, deletedAt, remindAt, notifiedAt) ==
    [id |-> id, status |-> status, deletedAt |-> deletedAt,
     remindAt |-> remindAt, notifiedAt |-> notifiedAt]

TaskA == Task("t1", "todo", 0, RemindAt, 0)
TaskDone == Task("t2", "completed", 0, RemindAt, 0)
TaskDeleted == Task("t3", "todo", 1, RemindAt, 0)
TaskPlain == Task("t4", "todo", 0, 0, 0)

\* the task arrays clients submit as req.body.data: an open task with a
\* reminder beside a completed, a deleted and a reminder-less one; the same
\* with the reminder marked as notified; the empty array
Tasks(notifiedAt) ==
    <<[TaskA EXCEPT !.notifiedAt = notifiedAt], TaskDone, TaskDeleted, TaskPlain>>

Payloads == {<<>>, Tasks(0), Tasks(RemindAt)}

\* JSON.stringify(tasks): the text stored in data.json_data, one tuple per task
JSONstringify(tasks) ==
    [i \in 1..Len(tasks) |->
        <<tasks[i].id, tasks[i].status, tasks[i].deletedAt,
          tasks[i].remindAt, tasks[i].notifiedAt>>]

\* JSON.parse(json_data)
JSONparse(json) ==
    [i \in 1..Len(json) |->
        Task(json[i][1], json[i][2], json[i][3], json[i][4], json[i][5])]

\* --------------------------------------------------------------- storage
\* table data: one row per username
NoRow == [present |-> FALSE, json_data |-> <<>>, version |-> 0]
Row(json, version) == [present |-> TRUE, json_data |-> json, version |-> version]

\* table push_subscriptions: one row per endpoint
NoSub == [present |-> FALSE, username |-> "", p256dh |-> "", auth |-> ""]
Sub(u, k) == [present |-> TRUE, username |-> u, p256dh |-> k, auth |-> k]

NoRes == [k |-> "none"]
NoScan == [k |-> "none"]

VARIABLES
    clock,            \* Date.now()
    nextTick,         \* earliest instant of the next setInterval callback
    vapid,            \* isPushConfigured(): the VAPID keys are set
    pushScanRunning,  \* the scanner's busy flag
    scans,            \* executions of scanAndSendReminders in flight
    pushes,           \* executions of sendPushToUser in flight
    dbq,              \* sqlite statements issued and not yet executed
    data,             \* table data
    subs,             \* table push_subscriptions
    res,              \* the HTTP response sent by the last step, if any
    lastScan,         \* what the scan that ended last examined and dispatched
    calls,            \* per task: dispatcher calls by this process's scanner
    marker,           \* per task: what became of the marker of a sent reminder
    notified,         \* tasks that have had notifiedAt >= remindAt in storage
    pub,              \* per user: the last publish acknowledged with success
    nreq,             \* client requests the model still accepts
    nrestart          \* restarts so far

vars == <<clock, nextTick, vapid, pushScanRunning, scans, pushes, dbq, data,
          subs, res, lastScan, calls, marker, notified, pub, nreq, nrestart>>

\* The storage layer: one sqlite connection that runs the statements in the
\* order they were issued, each of them atomically.
DbIssue(q, stmt) == Append(q, stmt)
DbHead == Head(dbq)
DbRest == Tail(dbq)

TaskIds == {"t1", "t2", "t3", "t4"}
TaskKeys == Users \X TaskIds

\* ------------------------------------------------------------- the scanner
\* server.js:20
isPushConfigured == vapid

\* the eligibility test without the notifiedAt check of line 163
NeedsReminderNoMarker(task) ==
    /\ ~(task.deletedAt # 0 \/ task.status = "completed")
    /\ task.remindAt # 0

\* the eligibility test without the status check of line 160
NeedsReminderAnyStatus(task) ==
    /\ ~(task.deletedAt # 0)
    /\ task.remindAt # 0
    /\ ~(task.notifiedAt # 0 /\ task.notifiedAt >= task.remindAt)

\* server.js:160-163: the task is open, has a reminder and carries no marker
\* for it
NeedsReminder(task) ==
    /\ ~(task.deletedAt # 0 \/ task.status = "completed")
    /\ task.remindAt # 0
    /\ ~(task.notifiedAt # 0 /\ task.notifiedAt >= task.remindAt)

\* the window test with the upper bound compared by > instead of >=
InWindowInclusive(now, remindAt) ==
    ~(now < remindAt \/ now > remindAt + PUSH_WINDOW_MS)

\* server.js:164: now lies in the reminder window of the task
InWindow(now, remindAt) ==
    ~(now < remindAt \/ now >= remindAt + PUSH_WINDOW_MS)

\* server.js:160-164: the loop body reaches the sendPushToUser call
IsDue(task, now) == NeedsReminder(task) /\ InWindow(now, task.remindAt)

\* the stored marker the scanner and the clients read: notifiedAt >= remindAt
Marked(task) == task.notifiedAt # 0 /\ task.notifiedAt >= task.remindAt

MarkedKeys(u, json) ==
    {<<u, JSONparse(json)[i].id>> : i \in {j \in 1..Len(json) : Marked(JSONparse(json)[j])}}

\* One execution of scanAndSendReminders.  pc names the await it is suspended
\* at: "rows" (dbAll, line 143), "push" (sendPushToUser, line 165), "write"
\* (dbRun, line 173); "done" is the return.  rows, ri, ti, tasks and changed
\* are the locals; seen records every task the inner loop has examined, old
\* and base the tasks stored as notified and the versions stored at the load.
NewScan(id) ==
    [id |-> id, pc |-> "rows", now |-> 0, rows |-> <<>>, ri |-> 1, ti |-> 0,
     tasks |-> <<>>, changed |-> FALSE, seen |-> {}, old |-> {},
     base |-> [u \in Users |-> 0]]

Seen(s, called) ==
    [username |-> s.rows[s.ri].username, task |-> s.tasks[s.ti], called |-> called]

\* server.js:150-178: the loops, from the scan's position up to the next
\* await or the return.  cfg is isPushConfigured() as sendPushToUser reads it
\* (line 109): when it is false the call returns false at once.
RECURSIVE RunScan(_, _)
RunScan(s, cfg) ==
    IF s.ri > Len(s.rows) THEN [s EXCEPT !.pc = "done"]
    ELSE IF s.ti = 0 THEN
        LET tasks == JSONparse(s.rows[s.ri].json_data) IN
        IF Len(tasks) = 0
        THEN RunScan([s EXCEPT !.ri = @ + 1], cfg)
        ELSE RunScan([s EXCEPT !.tasks = tasks, !.changed = FALSE, !.ti = 1], cfg)
    ELSE IF s.ti > Len(s.tasks) THEN
        IF s.changed
        THEN [s EXCEPT !.pc = "write"]
        ELSE RunScan([s EXCEPT !.ri = @ + 1, !.ti = 0, !.tasks = <<>>], cfg)
    ELSE IF IsDue(s.tasks[s.ti], s.now) THEN
        IF cfg
        THEN [s EXCEPT !.pc = "push", !.seen = @ \cup {Seen(s, TRUE)}]
        ELSE RunScan([s EXCEPT !.ti = @ + 1, !.seen = @ \cup {Seen(s, TRUE)}], cfg)
    ELSE RunScan([s EXCEPT !.ti = @ + 1, !.seen = @ \cup {Seen(s, FALSE)}], cfg)

\* the scanner going on without setting notifiedAt
AfterPushNoMark(s, sent) == [s EXCEPT !.ti = @ + 1]

\* the scanner marking the task with its reminder instant instead of now
AfterPushRemindAt(s, sent) ==
    LET s1 == IF sent
              THEN [s EXCEPT !.tasks[s.ti].notifiedAt = s.tasks[s.ti].remindAt,
                             !.changed = TRUE]
              ELSE s
    IN  [s1 EXCEPT !.ti = @ + 1]

\* server.js:165-169: sendPushToUser has returned sent
AfterPush(s, sent) ==
    LET s1 == IF sent
              THEN [s EXCEPT !.tasks[s.ti].notifiedAt = s.now, !.changed = TRUE]
              ELSE s
    IN  [s1 EXCEPT !.ti = @ + 1]

\* server.js:177-178: the write-back is done, on to the next row
AfterWrite(s) == [s EXCEPT !.ri = @ + 1, !.ti = 0, !.tasks = <<>>]

\* the task the suspended scan is calling the dispatcher for
PushKey(s) == <<s.rows[s.ri].username, s.tasks[s.ti].id>>
\* the same task as the scan loaded it
LoadedTask(s) == JSONparse(s.rows[s.ri].json_data)[s.ti]

\* the caller of a sendPushToUser execution: a scan, or /api/push/test
TestOwner == [k |-> "test", id |-> 0]
ScanOwner(id) == [k |-> "scan", id |-> id]

\* One execution of sendPushToUser.  pc: "subs" (dbAll, line 112), "send"
\* (Promise.allSettled, line 135).  jobs are the loaded subscriptions, pending
\* the send jobs not yet settled, gone the endpoints the transport reported
\* as 404/410.
NewPush(owner, u) ==
    [owner |-> owner, username |-> u, pc |-> "subs", jobs |-> {}, pending |-> {},
     gone |-> {}]

\* server.js:172-176: the scanner's write-back statement
ScanPut(s, now) ==
    [k |-> "scanPut", scan |-> s.id, username |-> s.rows[s.ri].username,
     json_data |-> JSONstringify(s.tasks), version |-> now]

Bump(c, key) == [c EXCEPT ![key] = IF @ < 2 THEN @ + 1 ELSE @]

\* The scan s resumes as s1 = RunScan(...): it suspends at its next await, or
\* returns and the .finally callback of line 185 clears the busy flag.
\* q and ps are the statement queue and the dispatches without what the
\* resuming step consumed.
Proceed(s, s1, q, ps) ==
    /\ scans' = IF s1.pc = "done" THEN scans \ {s} ELSE (scans \ {s}) \cup {s1}
    /\ pushes' = IF s1.pc = "push"
                 THEN ps \cup {NewPush(ScanOwner(s1.id), s1.rows[s1.ri].username)}
                 ELSE ps
    /\ dbq' = IF s1.pc = "push"
              THEN DbIssue(q, [k |-> "subsAll", owner |-> ScanOwner(s1.id)])
              ELSE IF s1.pc = "write" THEN DbIssue(q, ScanPut(s1, clock))
              ELSE q
    /\ pushScanRunning' = IF s1.pc = "done" THEN FALSE ELSE pushScanRunning
    /\ lastScan' = IF s1.pc = "done"
                   THEN [k |-> "scan", now |-> s1.now, seen |-> s1.seen]
                   ELSE lastScan
    /\ calls' = IF s1.pc = "push" THEN Bump(calls, PushKey(s1)) ELSE calls

\* sendPushToUser returns sent to its caller: the scanner (line 165), which
\* resumes, or the /api/push/test handler (lines 257-264), which answers.
Return(p, sent, q) ==
    IF p.owner = TestOwner
    THEN /\ res' = [k |-> "test", username |-> p.username,
                    status |-> IF sent THEN 200 ELSE 404]
         /\ pushes' = pushes \ {p}
         /\ dbq' = q
         /\ UNCHANGED <<scans, pushScanRunning, lastScan, calls, marker>>
    ELSE \E s \in scans :
         /\ s.id = p.owner.id
         /\ s.pc = "push"
         /\ Proceed(s, RunScan(AfterPush(s, sent), isPushConfigured), q, pushes \ {p})
         /\ marker' = IF sent THEN [marker EXCEPT ![PushKey(s)] = "sent"] ELSE marker
         /\ res' = NoRes

\* ------------------------------------------------------------ initial state
Perms(S) == {f \in [1..Cardinality(S) -> S] : \A i, j \in DOMAIN f : f[i] = f[j] => i = j}

\* rows earlier runs left in the database
OldRow(tasks) == Row(JSONstringify(tasks), InitVersion)
OneDevice == [e \in Endpoints |-> IF e = "e1" THEN Sub("alice", "k1") ELSE NoSub]
TwoDevices == [e \in Endpoints |-> Sub("alice", "k1")]
TwoUsers == [e \in Endpoints |-> IF e = "e1" THEN Sub("alice", "k1") ELSE Sub("bob", "k1")]
NoDevice == [e \in Endpoints |-> NoSub]

NoAck == [k |-> "none", tasks |-> <<>>, version |-> 0, clean |-> FALSE]

\* The process has just been started on the database d, sb that earlier
\* runs left: setInterval is armed (line 182), ensureVapidKeys has not run.
\* n client requests are to come.
Boot(d, sb, n) ==
    /\ clock = BootTime
    /\ nextTick = BootTime + PUSH_SCAN_INTERVAL_MS
    /\ vapid = FALSE
    /\ pushScanRunning = FALSE
    /\ scans = {}
    /\ pushes = {}
    /\ dbq = <<>>
    /\ data = d
    /\ subs = sb
    /\ res = NoRes
    /\ lastScan = NoScan
    /\ calls = [key \in TaskKeys |-> 0]
    /\ marker = [key \in TaskKeys |-> "none"]
    /\ notified = UNION {MarkedKeys(u, d[u].json_data) : u \in Users}
    /\ pub = [u \in Users |-> NoAck]
    /\ nreq = n
    /\ nrestart = 0

\* ------------------------------------------------------------------ process
\* server.js:365-377: ensureVapidKeys leaves the keys set, then app.listen
StartServer ==
    /\ ~vapid
    /\ vapid' = TRUE
    /\ res' = NoRes
    /\ UNCHANGED <<clock, nextTick, pushScanRunning, scans, pushes, dbq, data, subs,
                   lastScan, calls, marker, notified, pub, nreq, nrestart>>

\* wall-clock time passes
AdvanceClock ==
    /\ \E t \in Instants : t > clock /\ clock' = t
    /\ res' = NoRes
    /\ UNCHANGED <<nextTick, vapid, pushScanRunning, scans, pushes, dbq, data, subs,
                   lastScan, calls, marker, notified, pub, nreq, nrestart>>

\* The process ends and a new one is started: the memory of the old process
\* and the statements it had queued are gone, the database stays.
Reboot ==
    /\ nrestart < MaxRestarts
    /\ nrestart' = nrestart + 1
    /\ vapid' = FALSE
    /\ pushScanRunning' = FALSE
    /\ scans' = {}
    /\ pushes' = {}
    /\ dbq' = <<>>
    /\ nextTick' = clock + PUSH_SCAN_INTERVAL_MS
    /\ res' = NoRes
    /\ calls' = [key \in TaskKeys |-> 0]
    /\ marker' = [key \in TaskKeys |-> "none"]

\* the process is killed and started again
Restart ==
    /\ Reboot
    /\ lastScan' = NoScan
    /\ UNCHANGED <<clock, data, subs, notified, pub, nreq>>

\* --------------------------------------------------------- scanner actions
\* the tick testing the configuration only, not the busy flag
TickSkipsNoFlag == ~isPushConfigured

\* server.js:183: the tick does nothing
TickSkips == ~isPushConfigured \/ pushScanRunning

\* server.js:182-186: the setInterval callback
Tick ==
    /\ clock >= nextTick
    /\ nextTick' = clock + PUSH_SCAN_INTERVAL_MS
    /\ res' = NoRes
    /\ IF TickSkips
       THEN UNCHANGED <<pushScanRunning, scans, dbq>>
       ELSE /\ pushScanRunning' = TRUE
            /\ scans' = scans \cup {NewScan(clock)}
            /\ dbq' = DbIssue(dbq, [k |-> "scanAll", scan |-> clock])
    /\ UNCHANGED <<clock, vapid, pushes, data, subs, lastScan, calls, marker,
                   notified, pub, nreq, nrestart>>

\* server.js:143-149: dbAll resolves with the rows of data, in the order the
\* table yields them; now = Date.now(); the loop runs to its first await
ScanOnRows(s) ==
    /\ s.pc = "rows"
    /\ dbq # <<>>
    /\ DbHead = [k |-> "scanAll", scan |-> s.id]
    /\ \E order \in Perms({u \in Users : data[u].present}) :
         LET rows == [i \in DOMAIN order |->
                        [username |-> order[i], json_data |-> data[order[i]].json_data]]
             s0 == [s EXCEPT !.rows = rows, !.now = clock, !.old = notified,
                             !.base = [u \in Users |-> data[u].version]]
         IN  Proceed(s, RunScan(s0, isPushConfigured), DbRest, pushes)
    /\ res' = NoRes
    /\ UNCHANGED <<clock, nextTick, vapid, data, subs, marker, notified, pub, nreq,
                   nrestart>>

\* server.js:173-177: the write-back statement has run
ScanOnWrite(s) ==
    /\ s.pc = "write"
    /\ dbq # <<>>
    /\ DbHead.k = "scanPut"
    /\ DbHead.scan = s.id
    /\ LET op == DbHead IN
       /\ data' = [data EXCEPT ![op.username] = Row(op.json_data, op.version)]
       /\ notified' = notified \cup MarkedKeys(op.username, op.json_data)
       /\ pub' = [pub EXCEPT ![op.username].clean = FALSE]
    /\ Proceed(s, RunScan(AfterWrite(s), isPushConfigured), DbRest, pushes)
    /\ res' = NoRes
    /\ UNCHANGED <<clock, nextTick, vapid, subs, marker, nreq, nrestart>>

\* ------------------------------------------------------ dispatcher actions
\* the load keeping one row only
SubsOfFirst(u) ==
    LET mine == {x \in Endpoints : subs[x].present /\ subs[x].username = u}
    IN  IF mine = {} THEN {}
        ELSE LET e == CHOOSE x \in mine : TRUE
             IN  {[endpoint |-> e, p256dh |-> subs[e].p256dh, auth |-> subs[e].auth]}

\* the rows sendPushToUser loads (line 112)
SubsOf(u) ==
    {[endpoint |-> e, p256dh |-> subs[e].p256dh, auth |-> subs[e].auth] :
        e \in {x \in Endpoints : subs[x].present /\ subs[x].username = u}}

\* server.js:112-119: the subscriptions of the user are loaded; none: return
\* false; else one send job per subscription is started
PushOnSubs(p) ==
    /\ p.pc = "subs"
    /\ dbq # <<>>
    /\ DbHead = [k |-> "subsAll", owner |-> p.owner]
    /\ LET rows == SubsOf(p.username)
       IN  IF rows = {}
           THEN Return(p, FALSE, DbRest)
           ELSE /\ pushes' = (pushes \ {p}) \cup
                               {[p EXCEPT !.pc = "send", !.jobs = rows, !.pending = rows]}
                /\ dbq' = DbRest
                /\ res' = NoRes
                /\ UNCHANGED <<scans, pushScanRunning, lastScan, calls, marker>>
    /\ UNCHANGED <<clock, nextTick, vapid, data, subs, notified, pub, nreq, nrestart>>

\* server.js:128: the transport says the endpoint is gone
IsGone(code) == code = 404 \/ code = 410

\* server.js:124-136: webpush.sendNotification settles for one subscription;
\* on 404/410 the DELETE is issued and not awaited; when the last job has
\* settled, Promise.allSettled resolves and sendPushToUser returns true
SendDone(p, job, code) ==
    /\ p.pc = "send"
    /\ job \in p.pending
    /\ LET q == IF IsGone(code)
                THEN DbIssue(dbq, [k |-> "delSub", endpoint |-> job.endpoint])
                ELSE dbq
           p1 == [p EXCEPT !.pending = @ \ {job},
                           !.gone = IF IsGone(code) THEN @ \cup {job.endpoint} ELSE @]
       IN  IF p1.pending = {}
           THEN Return(p, TRUE, q)
           ELSE /\ pushes' = (pushes \ {p}) \cup {p1}
                /\ dbq' = q
                /\ res' = NoRes
                /\ UNCHANGED <<scans, pushScanRunning, lastScan, calls, marker>>
    /\ UNCHANGED <<clock, nextTick, vapid, data, subs, notified, pub, nreq, nrestart>>

\* server.js:129: the DELETE of a dead endpoint runs
DbDelete ==
    /\ dbq # <<>>
    /\ DbHead.k = "delSub"
    /\ subs' = [subs EXCEPT ![DbHead.endpoint] = NoSub]
    /\ dbq' = DbRest
    /\ res' = NoRes
    /\ UNCHANGED <<clock, nextTick, vapid, pushScanRunning, scans, pushes, data,
                   lastScan, calls, marker, notified, pub, nreq, nrestart>>

\* ------------------------------------------------------------ sync actions
\* A client request is modelled from the moment sqlite executes its first
\* statement: statements run in the order they were issued and the time a
\* request spends waiting in front of its first statement changes nothing it
\* reads or writes.
\* the server listens once ensureVapidKeys is done (line 371)
Accepts == vapid /\ nreq > 0 /\ Len(dbq) < MaxQueue

\* server.js:202: the row (or none) is answered
FetchReply(u, row) ==
    [k |-> "fetch", username |-> u,
     data |-> IF row.present THEN JSONparse(row.json_data) ELSE <<>>,
     version |-> IF row.present THEN row.version ELSE 0]

\* server.js:200-204: GET /api/data: the SELECT runs and the row is answered
Fetch(u) ==
    /\ vapid
    /\ res' = FetchReply(u, data[u])
    /\ UNCHANGED <<clock, nextTick, vapid, pushScanRunning, scans, pushes, dbq, data,
                   subs, lastScan, calls, marker, notified, pub, nreq, nrestart>>

\* server.js:209
ServerVersion(row) == IF row.present THEN row.version ELSE 0

\* the version test with the comparison turned round
IsConflictReversed(force, version, serverVersion) == ~force /\ version > serverVersion

\* the version test without the force flag
IsConflictNoForce(force, version, serverVersion) == version < serverVersion

\* the version test rejecting a version equal to the stored one too
IsConflictInclusive(force, version, serverVersion) == ~force /\ version <= serverVersion

\* req.body.version when the request carries none, or one that is not a number
Undefined == -1

\* server.js:210: version < serverVersion as JavaScript evaluates it: undefined
\* (or a text that is no number) converts to NaN and every comparison with NaN
\* is false
JsLess(version, serverVersion) == version # Undefined /\ version < serverVersion

\* server.js:210: the publish is rejected as stale
IsConflict(force, version, serverVersion) == ~force /\ JsLess(version, serverVersion)

\* the new version taken from the request instead of the clock
NewVersionEcho(version, now) == version

\* server.js:213
NewVersion(version, now) == now

\* server.js:206-217: POST /api/data: the SELECT of the stored version runs and
\* its callback answers Conflict, or issues the write with newVersion =
\* Date.now()
Publish(u, tasks, version, force) ==
    /\ Accepts
    /\ nreq' = nreq - 1
    /\ LET req == [username |-> u, data |-> tasks, version |-> version, force |-> force]
           serverVersion == ServerVersion(data[u])
       IN  IF IsConflict(force, version, serverVersion)
           THEN /\ res' = [k |-> "publish", status |-> 409, req |-> req,
                           serverVersion |-> serverVersion, version |-> 0]
                /\ dbq' = dbq
           ELSE /\ res' = NoRes
                /\ dbq' = DbIssue(dbq, [k |-> "pubPut", req |-> req,
                                       json_data |-> JSONstringify(tasks),
                                       version |-> NewVersion(version, clock)])
    /\ UNCHANGED <<clock, nextTick, vapid, pushScanRunning, scans, pushes, data, subs,
                   lastScan, calls, marker, notified, pub, nrestart>>

\* the markers of sent reminders that the collection json no longer carries
Lost(u, json) ==
    [key \in TaskKeys |->
        IF key[1] = u /\ marker[key] = "sent" /\ key \notin MarkedKeys(u, json)
        THEN "lost" ELSE marker[key]]

\* server.js:214-217: the INSERT OR REPLACE has run, success is answered
PublishOnWrite ==
    /\ dbq # <<>>
    /\ DbHead.k = "pubPut"
    /\ LET op == DbHead
           u == op.req.username
       IN  /\ data' = [data EXCEPT ![u] = Row(op.json_data, op.version)]
           /\ res' = [k |-> "publish", status |-> 200, req |-> op.req,
                      serverVersion |-> 0, version |-> op.version]
           /\ pub' = [pub EXCEPT ![u] = [k |-> "ack", tasks |-> op.req.data,
                                         version |-> op.version, clean |-> TRUE]]
           /\ notified' = notified \cup MarkedKeys(u, op.json_data)
           /\ marker' = Lost(u, op.json_data)
    /\ dbq' = DbRest
    /\ UNCHANGED <<clock, nextTick, vapid, pushScanRunning, scans, pushes, subs,
                   lastScan, calls, nreq, nrestart>>

\* ---------------------------------------------------- subscription actions
\* INSERT OR REPLACE INTO push_subscriptions: the table has one row per
\* endpoint, its key
Upsert(table, e, row) == [table EXCEPT ![e] = row]

\* the INSERT leaving a row that exists for the endpoint as it is
SubscribeIgnore(u, e, key) ==
    /\ Accepts
    /\ isPushConfigured
    /\ nreq' = nreq - 1
    /\ subs' = IF subs[e].present THEN subs ELSE Upsert(subs, e, Sub(u, key))
    /\ res' = [k |-> "subscribe", username |-> u, status |-> 200]
    /\ UNCHANGED <<clock, nextTick, vapid, pushScanRunning, scans, pushes, dbq, data,
                   lastScan, calls, marker, notified, pub, nrestart>>

\* server.js:227-238: POST /api/push/subscribe with a well-formed
\* subscription: the INSERT OR REPLACE keyed by endpoint
Subscribe(u, e, key) ==
    /\ Accepts
    /\ isPushConfigured
    /\ nreq' = nreq - 1
    /\ subs' = Upsert(subs, e, Sub(u, key))
    /\ res' = [k |-> "subscribe", username |-> u, status |-> 200]
    /\ UNCHANGED <<clock, nextTick, vapid, pushScanRunning, scans, pushes, dbq, data,
                   lastScan, calls, marker, notified, pub, nrestart>>

\* server.js:241-252: POST /api/push/unsubscribe: the DELETE by username, or
\* by endpoint and username; e = "" is a request without endpoint
Unsubscribe(u, e) ==
    /\ Accepts
    /\ nreq' = nreq - 1
    /\ subs' = [x \in Endpoints |->
                  IF subs[x].present /\ subs[x].username = u /\ (e = "" \/ e = x)
                  THEN NoSub ELSE subs[x]]
    /\ res' = [k |-> "unsubscribe", username |-> u, status |-> 200]
    /\ UNCHANGED <<clock, nextTick, vapid, pushScanRunning, scans, pushes, dbq, data,
                   lastScan, calls, marker, notified, pub, nrestart>>

\* server.js:254-264, 108-119: POST /api/push/test calls sendPushToUser: no
\* subscription is answered 404, else the send jobs are started
PushTest(u) ==
    /\ Accepts
    /\ isPushConfigured
    /\ \A p \in pushes : p.owner # TestOwner
    /\ nreq' = nreq - 1
    /\ IF SubsOf(u) = {}
       THEN /\ res' = [k |-> "test", username |-> u, status |-> 404]
            /\ pushes' = pushes
       ELSE /\ res' = NoRes
            /\ pushes' = pushes \cup {[NewPush(TestOwner, u) EXCEPT
                             !.pc = "send", !.jobs = SubsOf(u), !.pending = SubsOf(u)]}
    /\ UNCHANGED <<clock, nextTick, vapid, pushScanRunning, scans, dbq, data, subs,
                   lastScan, calls, marker, notified, pub, nrestart>>

\* ------------------------------------------------------- storage failures
\* server.js:143-147: dbAll rejects: the scan logs and returns
ScanOnRowsFail(s) ==
    /\ s.pc = "rows"
    /\ dbq # <<>>
    /\ DbHead = [k |-> "scanAll", scan |-> s.id]
    /\ scans' = scans \ {s}
    /\ pushScanRunning' = FALSE
    /\ dbq' = DbRest
    /\ res' = NoRes
    /\ UNCHANGED <<clock, nextTick, vapid, pushes, data, subs, lastScan, calls, marker,
                   notified, pub, nreq, nrestart>>

\* the markers of the reminders the scan s sent for the row it is at, which
\* its write-back was to store
Unsaved(s) ==
    [key \in TaskKeys |->
        IF /\ marker[key] = "sent"
           /\ \E x \in s.seen : x.called /\ <<x.username, x.task.id>> = key
                                 /\ x.username = s.rows[s.ri].username
        THEN "lost" ELSE marker[key]]

\* the rejected scan leaving the busy flag set, as with .then in place of
\* .finally at line 185
ScanOnWriteFailStuck(s, exits) ==
    /\ s.pc = "write"
    /\ dbq # <<>>
    /\ DbHead.k = "scanPut"
    /\ DbHead.scan = s.id
    /\ lastScan' = [k |-> "scan", now |-> s.now, seen |-> s.seen]
    /\ IF exits
       THEN Reboot
       ELSE /\ scans' = scans \ {s}
            /\ dbq' = DbRest
            /\ marker' = Unsaved(s)
            /\ res' = NoRes
            /\ UNCHANGED <<nextTick, vapid, pushScanRunning, pushes, calls, nrestart>>
    /\ UNCHANGED <<clock, data, subs, notified, pub, nreq>>

\* server.js:173-176, 185: dbRun rejects: nothing catches it inside
\* scanAndSendReminders, the scan ends there, .finally clears the busy flag
\* and the rejection of the promise .finally returns is unhandled: the
\* runtime either only warns (exits = FALSE) or ends the process.
ScanOnWriteFail(s, exits) ==
    /\ s.pc = "write"
    /\ dbq # <<>>
    /\ DbHead.k = "scanPut"
    /\ DbHead.scan = s.id
    /\ lastScan' = [k |-> "scan", now |-> s.now, seen |-> s.seen]
    /\ IF exits
       THEN Reboot
       ELSE /\ scans' = scans \ {s}
            /\ pushScanRunning' = FALSE
            /\ dbq' = DbRest
            /\ marker' = Unsaved(s)
            /\ res' = NoRes
            /\ UNCHANGED <<nextTick, vapid, pushes, calls, nrestart>>
    /\ UNCHANGED <<clock, data, subs, notified, pub, nreq>>

\* server.js:111-116: the load of the subscriptions rejects: return false
PushOnSubsFail(p) ==
    /\ p.pc = "subs"
    /\ dbq # <<>>
    /\ DbHead = [k |-> "subsAll", owner |-> p.owner]
    /\ Return(p, FALSE, DbRest)
    /\ UNCHANGED <<clock, nextTick, vapid, data, subs, notified, pub, nreq, nrestart>>

\* server.js:129: the DELETE fails; it has no callback
DbDeleteFail ==
    /\ dbq # <<>>
    /\ DbHead.k = "delSub"
    /\ dbq' = DbRest
    /\ res' = NoRes
    /\ UNCHANGED <<clock, nextTick, vapid, pushScanRunning, scans, pushes, data, subs,
                   lastScan, calls, marker, notified, pub, nreq, nrestart>>

\* server.js:201-202: the SELECT fails: err is not read, row is undefined
FetchFail(u) ==
    /\ vapid
    /\ res' = FetchReply(u, NoRow)
    /\ UNCHANGED <<clock, nextTick, vapid, pushScanRunning, scans, pushes, dbq, data,
                   subs, lastScan, calls, marker, notified, pub, nreq, nrestart>>

\* server.js:208-217: the SELECT of the version fails: err is not read, row is
\* undefined and serverVersion is 0
PublishReadFail(u, tasks, version, force) ==
    /\ Accepts
    /\ nreq' = nreq - 1
    /\ LET req == [username |-> u, data |-> tasks, version |-> version, force |-> force]
           serverVersion == ServerVersion(NoRow)
       IN  IF IsConflict(force, version, serverVersion)
           THEN /\ res' = [k |-> "publish", status |-> 409, req |-> req,
                           serverVersion |-> serverVersion, version |-> 0]
                /\ dbq' = dbq
           ELSE /\ res' = NoRes
                /\ dbq' = DbIssue(dbq, [k |-> "pubPut", req |-> req,
                                       json_data |-> JSONstringify(tasks),
                                       version |-> NewVersion(version, clock)])
    /\ UNCHANGED <<clock, nextTick, vapid, pushScanRunning, scans, pushes, data, subs,
                   lastScan, calls, marker, notified, pub, nrestart>>

\* server.js:214-217: the INSERT OR REPLACE fails: the callback does not read
\* the error and answers success
PublishOnWriteFail ==
    /\ dbq # <<>>
    /\ DbHead.k = "pubPut"
    /\ LET op == DbHead IN
       /\ res' = [k |-> "publish", status |-> 200, req |-> op.req,
                  serverVersion |-> 0, version |-> op.version]
       /\ pub' = [pub EXCEPT ![op.req.username] =
                     [k |-> "ack", tasks |-> op.req.data,
                      version |-> op.version, clean |-> TRUE]]
    /\ dbq' = DbRest
    /\ UNCHANGED <<clock, nextTick, vapid, pushScanRunning, scans, pushes, data, subs,
                   lastScan, calls, marker, notified, nreq, nrestart>>

\* ------------------------------------------------------------ specification
\* the version a client holds: none yet, the one of an earlier run, or the one
\* stored when it asks
ClientVersions(u) == {0, InitVersion, data[u].version}

\* the timer, the scanner and the dispatcher
NextScan ==
    \/ StartServer
    \/ AdvanceClock
    \/ Restart
    \/ Tick
    \/ \E s \in scans : ScanOnRows(s)
    \/ \E s \in scans : ScanOnWrite(s)
    \/ \E p \in pushes : PushOnSubs(p)
    \/ \E p \in pushes : \E job \in p.pending : \E code \in Statuses : SendDone(p, job, code)
    \/ DbDelete

\* the sync endpoints, for the users of U
NextSync(U) ==
    \/ \E u \in U : Fetch(u)
    \/ \E u \in U : \E tasks \in Payloads : \E v \in ClientVersions(u) :
          \E force \in BOOLEAN : Publish(u, tasks, v, force)
    \/ PublishOnWrite

\* the subscription endpoints
NextPush ==
    \/ \E u \in Users : \E e \in Endpoints : \E key \in Keys : Subscribe(u, e, key)
    \/ \E u \in Users : \E e \in Endpoints \cup {""} : Unsubscribe(u, e)
    \/ \E u \in Users : PushTest(u)

\* One user syncing while the scanner runs: alice has a collection with an
\* open reminder and one device or none.
Init ==
    \E sb \in {NoDevice, OneDevice} :
        Boot([u \in Users |-> IF u = "alice" THEN OldRow(Tasks(0)) ELSE NoRow], sb, MaxScanRequests)

Next == NextScan \/ NextSync({"alice"})

Spec == Init /\ [][Next]_vars

\* The scanner alone over the collections of two users.
InitScan ==
    \E d \in {[u \in Users |-> OldRow(Tasks(0))],
               [u \in Users |-> IF u = "alice" THEN OldRow(Tasks(RemindAt)) ELSE OldRow(<<>>)]} :
    \E sb \in {NoDevice, TwoDevices, TwoUsers} : Boot(d, sb, 0)

SpecScan == InitScan /\ [][NextScan]_vars

\* the scanner's storage calls may fail
NextScanFault ==
    \/ \E s \in scans : ScanOnRowsFail(s)
    \/ \E s \in scans : \E exits \in BOOLEAN : ScanOnWriteFail(s, exits)
    \/ \E p \in pushes : PushOnSubsFail(p)
    \/ DbDeleteFail

\* the storage calls of the sync endpoints may fail
NextSyncFault(U) ==
    \/ \E u \in U : FetchFail(u)
    \/ \E u \in U : \E tasks \in Payloads : \E v \in ClientVersions(u) :
          \E force \in BOOLEAN : PublishReadFail(u, tasks, v, force)
    \/ PublishOnWriteFail

NextScanF == NextScan \/ NextScanFault

SpecScanF == InitScan /\ [][NextScanF]_vars

NextF == Next \/ NextScanFault \/ NextSyncFault({"alice"})

SpecF == Init /\ [][NextF]_vars

\* The subscription endpoints and the test dispatch, two users: the endpoint
\* e1 is alice's, e2 is bob's or not registered.
InitPush ==
    \E sb \in {OneDevice, TwoUsers} : Boot([u \in Users |-> NoRow], sb, MaxPushRequests)

NextPushOnly ==
    \/ StartServer
    \/ NextPush
    \/ \E p \in pushes : \E job \in p.pending : \E code \in Statuses : SendDone(p, job, code)
    \/ DbDelete

SpecPush == InitPush /\ [][NextPushOnly]_vars

\* The sync endpoints alone, two users.
InitSync ==
    \E d \in {[u \in Users |-> NoRow], [u \in Users |-> OldRow(Tasks(0))]} :
        Boot(d, NoDevice, MaxRequests)

NextSyncOnly == StartServer \/ AdvanceClock \/ NextSync(Users)

SpecSync == InitSync /\ [][NextSyncOnly]_vars

\* the same with clients that send no version
NextVersionless ==
    \E u \in Users : \E tasks \in Payloads : Publish(u, tasks, Undefined, FALSE)

SpecVersionless == InitSync /\ [][NextSyncOnly \/ NextVersionless]_vars

\* ------------------------------------------------------------------ claims
\* every task a scan has examined, with the scan's timestamp and whether the
\* scan called the dispatcher for it
Examined ==
    UNION {{[now |-> s.now, username |-> x.username, task |-> x.task, called |-> x.called] :
              x \in s.seen} : s \in scans}
      \cup (IF lastScan.k = "scan"
            THEN {[now |-> lastScan.now, username |-> x.username, task |-> x.task,
                   called |-> x.called] : x \in lastScan.seen}
            ELSE {})

\* the step applies a write to the collection of u
WriteTo(u) ==
    \/ PublishOnWrite /\ DbHead.req.username = u
    \/ \E s \in scans : ScanOnWrite(s) /\ DbHead.username = u

\* the step makes a scan call the dispatcher for the task key
Called(key) ==
    \E s \in scans' : s \notin scans /\ s.pc = "push" /\ PushKey(s) = key

\* C1 (conflict rejection): a non-forced publish whose version is below the
\* stored version is answered Conflict with the stored version; the stored row
\* of the user is unchanged and no write is issued.
C1_ConflictRejection ==
    [][\A u \in Users : \A tasks \in Payloads : \A v \in ClientVersions(u) :
          (Publish(u, tasks, v, FALSE) /\ data[u].present /\ v < data[u].version)
             => /\ res'.k = "publish"
                /\ res'.status = 409
                /\ res'.serverVersion = data[u].version
                /\ data'[u] = data[u]
                /\ dbq' = dbq]_vars

\* a publish carrying the version of an earlier run was answered Conflict with
\* the newer stored version
C1_Witness ==
    /\ res.k = "publish"
    /\ res.status = 409
    /\ ~res.req.force
    /\ res.req.version = InitVersion
    /\ res.serverVersion > InitVersion
    /\ data[res.req.username].version = res.serverVersion

\* C2 (version monotonicity), as claimed: every write applied to a user's
\* collection stores a version strictly greater than the one stored before.
C2_StrictlyIncreasing ==
    [][\A u \in Users : WriteTo(u) => data'[u].version > ServerVersion(data[u])]_vars

\* C2 (version monotonicity), amended: every write applied to a user's
\* collection stores a version that is not smaller than the one stored before.
C2_NeverDecreases ==
    [][\A u \in Users : WriteTo(u) => data'[u].version >= ServerVersion(data[u])]_vars

\* a scanner write-back followed an acknowledged publish and stored the very
\* version the publish had stored
C2_Witness ==
    /\ pub["alice"].k = "ack"
    /\ ~pub["alice"].clean
    /\ data["alice"].version = pub["alice"].version

\* C3 (force bypass): a forced publish is never answered Conflict, whatever its
\* version: its write is issued; and when the write has run, success is
\* answered with the new version and the stored collection is the submitted
\* one under that version.
C3_ForceBypass ==
    [][/\ \A u \in Users : \A tasks \in Payloads : \A v \in ClientVersions(u) :
             Publish(u, tasks, v, TRUE)
                => /\ res' = NoRes
                   /\ Len(dbq') = Len(dbq) + 1
                   /\ dbq'[Len(dbq')].k = "pubPut"
                   /\ dbq'[Len(dbq')].req =
                         [username |-> u, data |-> tasks, version |-> v, force |-> TRUE]
       /\ (res'.k = "publish" /\ res'.req.force)
             => /\ res'.status = 200
                /\ data'[res'.req.username].present
                /\ JSONparse(data'[res'.req.username].json_data) = res'.req.data
                /\ data'[res'.req.username].version = res'.version
                /\ res'.version >= ServerVersion(data[res'.req.username])]_vars

\* a forced publish with a version below the stored one has overwritten a
\* stored collection
C3_Witness ==
    /\ res.k = "publish"
    /\ res.status = 200
    /\ res.req.force
    /\ res.req.version = 0
    /\ res.version > InitVersion
    /\ data[res.req.username] = Row(JSONstringify(res.req.data), res.version)

\* C4 (idempotent notification), as claimed: a scan never calls the dispatcher
\* for a task that had notifiedAt >= remindAt in storage at some moment before
\* the scan loaded the collections.
C4_NeverRedispatched ==
    \A s \in scans : s.pc = "push" => PushKey(s) \notin s.old

\* C4 (idempotent notification), amended: a scan never calls the dispatcher
\* for a task that has notifiedAt >= remindAt in the collection the scan
\* loaded.
C4_MarkedNeverDispatched ==
    \A x \in Examined : Marked(x.task) => ~x.called

\* a scan inside the window has examined an open task that carries the marker
\* and has not dispatched it
C4_Witness ==
    \E x \in Examined :
        /\ Marked(x.task)
        /\ ~x.called
        /\ x.task.status # "completed"
        /\ x.task.deletedAt = 0
        /\ x.task.remindAt <= x.now
        /\ x.now < x.task.remindAt + PUSH_WINDOW_MS

C6_WindowEdge ==
    \A x \in Examined :
        (/\ x.task.status # "completed"
         /\ x.task.deletedAt = 0
         /\ x.task.remindAt # 0
         /\ ~(x.task.notifiedAt # 0 /\ x.task.notifiedAt >= x.task.remindAt))
           => (x.called <=> (x.task.remindAt <= x.now /\ x.now < x.task.remindAt + 60000))

\* a scan with timestamp remindAt + 60000 has passed over an open, unmarked
\* task that an earlier scan had called the dispatcher for
C6_Witness ==
    \E x \in Examined :
        /\ x.task.status = "todo"
        /\ x.task.deletedAt = 0
        /\ x.task.notifiedAt = 0
        /\ x.now = x.task.remindAt + PUSH_WINDOW_MS
        /\ ~x.called
        /\ calls[<<x.username, x.task.id>>] > 0

\* C7 (dead-endpoint pruning): when sendPushToUser returns, every loaded
\* subscription the transport reported as 404/410 is absent from
\* push_subscriptions and every other loaded subscription is stored unchanged.
C7_PrunedOnReturn ==
    [][\A p \in pushes : \A job \in p.pending : \A code \in Statuses :
          (SendDone(p, job, code) /\ p.pending = {job})
             => LET gone == p.gone \cup (IF IsGone(code) THEN {job.endpoint} ELSE {})
                IN  \A r \in p.jobs :
                       IF r.endpoint \in gone
                       THEN ~subs'[r.endpoint].present
                       ELSE /\ subs'[r.endpoint].present
                            /\ subs'[r.endpoint].username = p.username
                            /\ subs'[r.endpoint].p256dh = r.p256dh
                            /\ subs'[r.endpoint].auth = r.auth]_vars

\* C8 (single flight): at most one scan is in flight, and a tick that fires
\* while a scan is in flight starts no scan and issues no statement.
C8_SingleFlight ==
    [][/\ Cardinality(scans') <= 1
       /\ (Tick /\ scans # {}) => (scans' = scans /\ dbq' = dbq)]_vars

\* a scan is in flight and a tick later than the one that started it has fired
C8_Witness ==
    \E s \in scans : nextTick > s.id + PUSH_SCAN_INTERVAL_MS

\* C9 (publish visibility): a fetch for a user whose last publish was
\* acknowledged with success answers the tasks of that publish and its version.
C9_FetchSeesPublish ==
    (res.k = "fetch" /\ pub[res.username].k = "ack")
       => /\ res.data = pub[res.username].tasks
          /\ res.version = pub[res.username].version

\* C10 (scanner failure isolation): when the write-back for one user fails, the
\* process lives on and the scan goes on with the remaining rows as it does
\* after a write-back that succeeded.
C10_FailureIsolated ==
    [][\A s \in scans : \A exits \in BOOLEAN :
          ScanOnWriteFail(s, exits)
             => /\ nrestart' = nrestart
                /\ LET s1 == RunScan(AfterWrite(s), isPushConfigured)
                   IN  IF s1.pc = "done"
                       THEN lastScan'.seen = s1.seen
                       ELSE s1 \in scans']_vars

\* C11 (no notification after the window): once the clock has reached
\* remindAt + 60000 and the task has never been stored as notified, no scan
\* calls the dispatcher for it.
C11_NoDispatchAfterWindow ==
    [][\A s \in scans' :
          (s \notin scans /\ s.pc = "push" /\ PushKey(s) \notin notified)
             => clock < LoadedTask(s).remindAt + PUSH_WINDOW_MS]_vars

\* the step ends the dispatch p of a scan with the result false: no send job
\* has been started for it and the scan goes on with the task unmarked
ReturnedFalse(p) ==
    /\ \A p1 \in pushes' : p1.owner = p.owner => p1.pc = "subs"
    /\ \A s \in scans : \A s1 \in scans' :
          (s.id = p.owner.id /\ s1.id = s.id /\ s1.ri = s.ri)
             => s1.tasks[s.ti].notifiedAt = s.tasks[s.ti].notifiedAt

\* the step ends the dispatch p of a scan with the result true: the scan goes
\* on with the task marked
ReturnedTrue(p) ==
    /\ \A p1 \in pushes' : p1.owner = p.owner => p1.pc = "subs"
    /\ \E s \in scans : \E s1 \in scans' :
          /\ s.id = p.owner.id
          /\ s1.id = s.id
          /\ s1.ri = s.ri
          /\ s1.changed
          /\ s1.tasks[s.ti].notifiedAt = s.now

SentBy(s) ==
    {i \in 1..Len(s.tasks) :
        /\ s.tasks[i] # JSONparse(s.rows[s.ri].json_data)[i]
        /\ \E x \in s.seen : /\ x.called
                             /\ x.username = s.rows[s.ri].username
                             /\ x.task.id = s.tasks[i].id}

\* C13 (marker write-back), as claimed: the write-back of a scan stores
\* notifiedAt = now for every task the dispatch returned true for, under a
\* version strictly greater than the one stored when the scan loaded; and a
\* dispatch that returns false changes neither the stored collection nor the
\* task's notifiedAt.
C13_MarkerWrittenStrict ==
    [][/\ \A s \in scans :
             ScanOnWrite(s)
                => LET u == DbHead.username
                       stored == JSONparse(data'[u].json_data)
                   IN  /\ SentBy(s) # {}
                       /\ Len(stored) = Len(s.tasks)
                       /\ \A i \in SentBy(s) :
                             stored[i].id = s.tasks[i].id /\ stored[i].notifiedAt = s.now
                       /\ data'[u].version > s.base[u]
       /\ \A p \in pushes :
             (PushOnSubs(p) /\ SubsOf(p.username) = {})
                => data' = data /\ ReturnedFalse(p)]_vars

\* C13 (marker write-back), amended: the same with a version that is not
\* smaller than the one stored when the scan loaded.
C13_MarkerWritten ==
    [][/\ \A s \in scans :
             ScanOnWrite(s)
                => LET u == DbHead.username
                       stored == JSONparse(data'[u].json_data)
                   IN  /\ SentBy(s) # {}
                       /\ Len(stored) = Len(s.tasks)
                       /\ \A i \in SentBy(s) :
                             stored[i].id = s.tasks[i].id /\ stored[i].notifiedAt = s.now
                       /\ data'[u].version >= s.base[u]
       /\ \A p \in pushes :
             (PushOnSubs(p) /\ SubsOf(p.username) = {})
                => data' = data /\ ReturnedFalse(p)]_vars

\* a scan that took its timestamp after the reminder instant has ended with
\* its timestamp stored as the task's notifiedAt under a later version
C13_Witness ==
    /\ lastScan.k = "scan"
    /\ lastScan.now > RemindAt
    /\ \E x \in lastScan.seen : x.called /\ x.username = "alice"
    /\ Len(data["alice"].json_data) > 0
    /\ JSONparse(data["alice"].json_data)[1].notifiedAt = lastScan.now
    /\ data["alice"].version >= lastScan.now

\* the task is completed, deleted or has no reminder
Excluded(task) ==
    task.status = "completed" \/ task.deletedAt # 0 \/ task.remindAt = 0

\* C14 (exclusion from reminders): no scan calls the dispatcher for a task
\* that is completed, deleted or without remindAt, and the write-back of a scan
\* stores such a task with the notifiedAt the scan loaded.
C14_Exclusion ==
    [][/\ \A x \in Examined' : Excluded(x.task) => ~x.called
       /\ \A s \in scans :
             ScanOnWrite(s)
                => LET u == DbHead.username
                       loaded == JSONparse(s.rows[s.ri].json_data)
                       stored == JSONparse(data'[u].json_data)
                   IN  /\ Len(stored) = Len(loaded)
                       /\ \A i \in 1..Len(loaded) :
                             Excluded(loaded[i]) => stored[i] = loaded[i]]_vars

\* a scan has written its markers back after passing over a completed and a
\* deleted task whose remindAt lay in the window
C14_Witness ==
    /\ lastScan.k = "scan"
    /\ \E x \in lastScan.seen : x.called /\ Marked(JSONparse(data[x.username].json_data)[1])
    /\ \E x \in lastScan.seen :
          /\ x.task.status = "completed"
          /\ x.task.remindAt <= lastScan.now
          /\ lastScan.now < x.task.remindAt + PUSH_WINDOW_MS
          /\ ~x.called
    /\ \E x \in lastScan.seen :
          /\ x.task.deletedAt # 0
          /\ x.task.remindAt <= lastScan.now
          /\ lastScan.now < x.task.remindAt + PUSH_WINDOW_MS
          /\ ~x.called

\* the positions in q of the publish writes for u issued and not yet applied
QueuedPuts(u, q) ==
    {i \in 1..Len(q) : q[i].k = "pubPut" /\ q[i].req.username = u}

\* C15 (publish race): a non-forced publish that reads the stored version
\* while the write of another publish for the same user is still queued, and
\* whose version is not below the stored one, is not answered Conflict: its
\* write is queued behind the other with a version that is not smaller.  Every
\* queued write, when applied, replaces the stored tasks and version by its
\* own, and its version is not smaller than the one it replaces: after both
\* writes the store holds the tasks of the last one and the later timestamp.
C15_PublishRace ==
    [][/\ \A u \in Users : \A tasks \in Payloads : \A v \in ClientVersions(u) :
             (/\ Publish(u, tasks, v, FALSE)
              /\ QueuedPuts(u, dbq) # {}
              /\ v >= ServerVersion(data[u]))
                => /\ res' = NoRes
                   /\ QueuedPuts(u, dbq') = QueuedPuts(u, dbq) \cup {Len(dbq) + 1}
                   /\ dbq'[Len(dbq')].req.data = tasks
                   /\ \A i \in QueuedPuts(u, dbq) : dbq'[Len(dbq')].version >= dbq[i].version
       /\ \A u \in Users :
             (PublishOnWrite /\ DbHead.req.username = u)
                => /\ res'.status = 200
                   /\ res'.version = DbHead.version
                   /\ JSONparse(data'[u].json_data) = DbHead.req.data
                   /\ data'[u].version = DbHead.version
                   /\ data'[u].version >= ServerVersion(data[u])]_vars

\* the first of two racing non-forced publishes has been applied and answered
\* with success; the second, which passed the check with a version that is now
\* below the stored one and carries other tasks, is still queued
C15_Witness ==
    /\ res.k = "publish"
    /\ res.status = 200
    /\ ~res.req.force
    /\ dbq # <<>>
    /\ DbHead.k = "pubPut"
    /\ DbHead.req.username = res.req.username
    /\ ~DbHead.req.force
    /\ DbHead.req.data # res.req.data
    /\ DbHead.req.version < data[res.req.username].version
    /\ DbHead.version > res.version

\* the endpoints registered for u
EndpointsOf(u, table) ==
    {e \in Endpoints : table[e].present /\ table[e].username = u}

\* C16 (endpoint is the unique key): a subscribe leaves the endpoint with the
\* requester as owner and the submitted keys, whoever owned it before, and
\* leaves the other endpoints alone; a dispatch loads exactly the endpoints
\* whose stored owner is its user, with their stored keys, so an endpoint that
\* was re-subscribed by another user is not a target of a dispatch that starts
\* afterwards for the previous owner.
C16_EndpointKey ==
    [][/\ \A u \in Users : \A e \in Endpoints : \A key \in Keys :
             Subscribe(u, e, key)
                => /\ subs'[e] = [present |-> TRUE, username |-> u, p256dh |-> key, auth |-> key]
                   /\ \A x \in Endpoints \ {e} : subs'[x] = subs[x]
                   /\ EndpointsOf(u, subs') = EndpointsOf(u, subs) \cup {e}
                   /\ \A w \in Users \ {u} : EndpointsOf(w, subs') = EndpointsOf(w, subs) \ {e}
       /\ \A u \in Users :
             PushTest(u)
                => /\ (res'.k = "test" /\ res'.status = 404) <=> EndpointsOf(u, subs) = {}
                   /\ \A p \in pushes' \ pushes :
                         /\ p.username = u
                         /\ {r.endpoint : r \in p.jobs} = EndpointsOf(u, subs)
                         /\ p.pending = p.jobs
                         /\ \A r \in p.jobs : /\ r.p256dh = subs[r.endpoint].p256dh
                                              /\ r.auth = subs[r.endpoint].auth]_vars

\* bob has subscribed alice's endpoint e1 with other keys and the test
\* dispatch for alice that followed has found no subscription
C16_Witness ==
    /\ nreq = MaxPushRequests - 2
    /\ subs["e1"] = Sub("bob", "k2")
    /\ res.k = "test"
    /\ res.username = "alice"
    /\ res.status = 404

\* C17 (the write-back touches only notifiedAt): the collection stored by a
\* scanner write-back is the collection stored just before it, with notifiedAt
\* set to the scan's timestamp in the tasks the scan dispatched and nothing
\* else changed.
C17_OnlyNotifiedAt ==
    [][\A s \in scans :
          ScanOnWrite(s)
             => LET u == DbHead.username
                    before == JSONparse(data[u].json_data)
                    after == JSONparse(data'[u].json_data)
                IN  /\ Len(after) = Len(before)
                    /\ \A i \in 1..Len(before) :
                          \/ after[i] = before[i]
                          \/ /\ i \in SentBy(s)
                             /\ after[i] = [before[i] EXCEPT !.notifiedAt = s.now]]_vars

\* C18 (publish under storage failure): a publish is answered success only
\* when its write has been stored, and a non-forced publish whose version is
\* below the stored one issues no write when the read of the version fails.
C18_PublishAborted ==
    [][/\ (res'.k = "publish" /\ res'.status = 200)
             => data'[res'.req.username] = Row(JSONstringify(res'.req.data), res'.version)
       /\ \A u \in Users : \A tasks \in Payloads : \A v \in ClientVersions(u) :
             (PublishReadFail(u, tasks, v, FALSE) /\ v < ServerVersion(data[u]))
                => dbq' = dbq /\ data' = data]_vars

\* C19 (version required): a non-forced publish issues its write only if it
\* carries a version that is not below the stored one; one that carries no
\* version issues none while a collection with a version above 0 is stored.
C19_VersionRequired ==
    [][\A u \in Users : \A tasks \in Payloads : \A v \in ClientVersions(u) \cup {Undefined} :
          (Publish(u, tasks, v, FALSE) /\ dbq' # dbq)
             => IF v = Undefined
                THEN ServerVersion(data[u]) = 0
                ELSE v >= ServerVersion(data[u])]_vars

\* C20 (the guard is always released): the busy flag is set exactly while a
\* scan is in flight, however the scan ended, and a tick that fires with push
\* configured and no scan in flight starts a scan.
C20_GuardReleased ==
    [][/\ pushScanRunning' <=> scans' # {}
       /\ (Tick /\ isPushConfigured /\ scans = {})
             => /\ pushScanRunning'
                /\ scans' = {NewScan(clock)}
                /\ dbq' # dbq]_vars

\* in a process whose earlier scan ended through a failed write-back, a later
\* tick has started a new scan
C20_Witness ==
    /\ nrestart = 0
    /\ \E key \in TaskKeys : marker[key] = "lost"
    /\ pushScanRunning
    /\ \E s \in scans : lastScan.k = "scan" /\ s.id > lastScan.now

====
